---- MODULE Spec2Model ----
(***************************************************************************)
(* Model of src/http_api.rs: the TunnelClient remote API (the api_endpoint! *)
(* and empty_api_endpoint! macros and the ten operations built on them)     *)
(* and the Let's Encrypt DNS-01 flow of TunnelClient::lets_encrypt.         *)
(*                                                                          *)
(* Strings are sequences of one-character strings (operation paths and      *)
(* parameter names are single tokens), Option<T> is a sequence of length 0  *)
(* (None) or 1 (Some).  The HTTP transport, the ACME client and the file    *)
(* system are collaborators: their answers are chosen nondeterministically  *)
(* and what they were asked is kept in requests, log and files, which are   *)
(* cleared when a new top-level call starts.                                *)
(***************************************************************************)
EXTENDS Integers, Sequences, FiniteSets, TLC

VARIABLES
    self,       \* the TunnelClient: [tunnel_url, token]
    op,         \* name of the current (or last) top-level call
    params,     \* parameter list handed to the endpoint macro by that call
    pc,         \* position inside lets_encrypt ("idle" outside of it)
    idx,        \* index into domains of the per-domain loop (0 outside)
    signature,  \* Option: the local `signature` of the loop body
    log,        \* collaborator calls made by the current call, in order
    requests,   \* URLs sent to the tunnel service by the current call
    decoded,    \* number of response.json() calls made by the current call
    files,      \* files written by the current call
    result,     \* what the current (or last) call returned
    resp,       \* the last response the transport produced
    published,  \* tunnel service: Option, the DNS challenge value it last accepted
    args,       \* arguments of lets_encrypt: [domain, name, path]
    outcome,    \* the Result the last endpoint function (call_*) returned
    built_path, \* the path ($base) of the last endpoint call or URL built
    built_with_token,  \* its include_token ($with_token) flag
    built_url   \* Option: the URL get_full_url returned for it

vars == <<self, op, params, pc, idx, signature, log, requests, decoded,
          files, result, resp, published, args, outcome,
          built_path, built_with_token, built_url>>

----------------------------------------------------------------------------
(* Bounds and input sets *)

NumValues == 2

ValueList ==
    << <<"a">>, <<" ", "&">>, <<"=", "?">>, <<"%", "#">>, <<"a", "b">> >>

Values == { ValueList[i] : i \in 1..(IF NumValues < Len(ValueList) THEN NumValues ELSE Len(ValueList)) }

Urls == { <<"h">>, <<"g">> }

Tokens == { <<"t">>, <<"u", "&">> }

None == <<>>

Some(v) == <<v>>

Option(S) == {None} \cup { Some(v) : v \in S }

Clients == [tunnel_url : Urls, token : Option(Tokens)]

RootDomains == { <<"example.com">> }

Names == { <<"foo">>, <<"bar">> }

Paths == { <<"certs">> }

\* values a DNS-01 challenge signature can take
Signatures == { <<"s">>, <<"z">> }

NoArgs == [domain |-> <<>>, name |-> <<>>, path |-> <<>>]

----------------------------------------------------------------------------
(* TunnelClientError and the values the calls return *)

HttpOk == 200

Statuses == {HttpOk, 204, 404}

Shapes == {"NameAndToken", "ServerInfo", "Discovered"}

Garbage == [shape |-> "none", token |-> None]

Bodies ==
    {Garbage}
    \cup { [shape |-> "NameAndToken", token |-> Some(t)] : t \in Tokens }
    \cup { [shape |-> s, token |-> None] : s \in {"ServerInfo", "Discovered"} }

NoResp == [transport |-> "none", status |-> 0, body |-> Garbage]

Refused == [transport |-> "refused", status |-> 0, body |-> Garbage]

Responses ==
    {Refused} \cup [transport : {"ok"}, status : Statuses, body : Bodies]

NoCall == [kind |-> "NoCall", msg |-> "", data |-> None, client |-> None]

Pending == [kind |-> "Pending", msg |-> "", data |-> None, client |-> None]

Ok == [kind |-> "Ok", msg |-> "", data |-> None, client |-> None]

OkWith(body) == [kind |-> "Ok", msg |-> "", data |-> Some(body), client |-> None]

Err(kind, msg) == [kind |-> kind, msg |-> msg, data |-> None, client |-> None]

TunnelClientError == {"NoName", "NoToken", "NoChallenge", "BadRequest", "Other", "Acme"}

FromAcmeError(err) == Err("Acme", err)

FromReqwestError_asBadRequest(err) == Err("BadRequest", "")

FromReqwestError(err) == Err("Other", err)

\* format!("{}", err) of a reqwest error: the description of its cause
Display(err) ==
    IF err.cause = "connect" THEN "connection refused"
    ELSE IF err.cause = "json" THEN "invalid json"
    ELSE "error"

----------------------------------------------------------------------------
(* url_param and get_full_url *)

\* QUERY_ENCODE_SET of the url crate, restricted to the characters in use:
\* space, double quote, #, < and > (and the non-printable bytes) are escaped
QUERY_ENCODE_SET == {" ", "\"", "#", "<", ">"}

Hex(c) ==
    IF c = " " THEN <<"2", "0">>
    ELSE IF c = "\"" THEN <<"2", "2">>
    ELSE IF c = "#" THEN <<"2", "3">>
    ELSE IF c = "<" THEN <<"3", "C">>
    ELSE <<"3", "E">>

percent_encode(c) == IF c \in QUERY_ENCODE_SET THEN <<"%">> \o Hex(c) ELSE <<c>>

RECURSIVE url_param(_)
url_param(param) ==
    IF param = <<>> THEN <<>>
    ELSE percent_encode(Head(param)) \o url_param(Tail(param))

\* the for loop of get_full_url: url and sep are its mutable locals
RECURSIVE AppendParams(_, _, _)
AppendParams(url, sep, prms) ==
    IF prms = <<>> THEN [url |-> url, sep |-> sep]
    ELSE LET param == Head(prms)
         IN IF param[2] # None
            THEN AppendParams(url \o <<sep, param[1], "=">> \o url_param(param[2][1]),
                              "&", Tail(prms))
            ELSE AppendParams(url, sep, Tail(prms))

get_full_url_tokenAmp(path, prms, include_token) ==
    LET start == self.tunnel_url \o <<"/", path>>
        st == AppendParams(start, "?", prms)
    IN IF include_token /\ self.token # None
       THEN st.url \o <<"&", "token", "=">> \o url_param(self.token[1])
       ELSE st.url

get_full_url(path, prms, include_token) ==
    LET start == self.tunnel_url \o <<"/", path>>
        st == AppendParams(start, "?", prms)
    IN IF include_token /\ self.token # None
       THEN st.url \o <<st.sep, "token", "=">> \o url_param(self.token[1])
       ELSE st.url

----------------------------------------------------------------------------
(* The api_endpoint! and empty_api_endpoint! macros.  r is the answer of   *)
(* the transport; the value is [res, sent, decoded, resp]: the returned    *)
(* Result, the URLs put on the wire, the number of body decodes and the    *)
(* response seen.                                                          *)

TokenMissing_unchecked(with_token) == FALSE

TokenMissing_inverted(with_token) == with_token /\ self.token # None

TokenMissing(with_token) == with_token /\ self.token = None

Send_retry(url, r) == IF r.transport = "refused" THEN <<url, url>> ELSE <<url>>

\* client.get(url).send(): one request on the wire
Send(url, r) == <<url>>

StatusIsOk_anySuccess(status) == status >= 200 /\ status < 300

StatusIsOk(status) == status = HttpOk

\* response.json::<ret>()
Json(ret, body) ==
    IF body.shape = ret THEN OkWith(body)
    ELSE FromReqwestError(Display([cause |-> "json"]))

api_endpoint(base, with_token, prms, ret, r) ==
    IF TokenMissing(with_token)
    THEN [res |-> Err("NoToken", ""), sent |-> <<>>, decoded |-> 0, resp |-> NoResp,
          base |-> base, with_token |-> with_token, url |-> None]
    ELSE LET url == get_full_url(base, prms, with_token)
         IN IF r.transport = "ok"
            THEN IF StatusIsOk(r.status)
                 THEN [res |-> Json(ret, r.body), sent |-> Send(url, r),
                       decoded |-> 1, resp |-> r,
                  base |-> base, with_token |-> with_token, url |-> Some(url)]
                 ELSE [res |-> Err("BadRequest", ""), sent |-> Send(url, r),
                       decoded |-> 0, resp |-> r,
                  base |-> base, with_token |-> with_token, url |-> Some(url)]
            ELSE [res |-> FromReqwestError(Display([cause |-> "connect"])),
                  sent |-> Send(url, r), decoded |-> 0, resp |-> r,
                  base |-> base, with_token |-> with_token, url |-> Some(url)]

empty_api_endpoint(base, with_token, prms, r) ==
    IF TokenMissing(with_token)
    THEN [res |-> Err("NoToken", ""), sent |-> <<>>, decoded |-> 0, resp |-> NoResp,
          base |-> base, with_token |-> with_token, url |-> None]
    ELSE LET url == get_full_url(base, prms, with_token)
         IN IF r.transport = "ok"
            THEN IF StatusIsOk(r.status)
                 THEN [res |-> Ok, sent |-> Send(url, r), decoded |-> 0, resp |-> r,
                  base |-> base, with_token |-> with_token, url |-> Some(url)]
                 ELSE [res |-> Err("BadRequest", ""), sent |-> Send(url, r),
                       decoded |-> 0, resp |-> r,
                  base |-> base, with_token |-> with_token, url |-> Some(url)]
            ELSE [res |-> FromReqwestError(Display([cause |-> "connect"])),
                  sent |-> Send(url, r), decoded |-> 0, resp |-> r,
                  base |-> base, with_token |-> with_token, url |-> Some(url)]

call_subscribe(prms, r) == api_endpoint("subscribe", FALSE, prms, "NameAndToken", r)

call_unsubscribe(prms, r) == empty_api_endpoint("unsubscribe", TRUE, prms, r)

call_register(prms, r) == empty_api_endpoint("register", TRUE, prms, r)

call_dnsconfig(prms, r) == empty_api_endpoint("dnsconfig", TRUE, prms, r)

call_info(prms, r) == api_endpoint("info", TRUE, prms, "ServerInfo", r)

call_ping(prms, r) == api_endpoint("ping", TRUE, prms, "Discovered", r)

call_adddiscovery(prms, r) == empty_api_endpoint("adddiscovery", TRUE, prms, r)

call_revokediscovery_ownPath(prms, r) == empty_api_endpoint("revokediscovery", TRUE, prms, r)

call_revokediscovery(prms, r) == empty_api_endpoint("adddiscovery", TRUE, prms, r)

call_setemail(prms, r) == empty_api_endpoint("setemail", TRUE, prms, r)

call_revokeemail(prms, r) == empty_api_endpoint("revokeemail", TRUE, prms, r)

----------------------------------------------------------------------------
(* State after TunnelClient::new *)

Init ==
    /\ self \in Clients
    /\ op = "new"
    /\ params = <<>>
    /\ pc = "idle"
    /\ idx = 0
    /\ signature = None
    /\ log = <<>>
    /\ requests = <<>>
    /\ decoded = 0
    /\ files = {}
    /\ result = NoCall
    /\ resp = NoResp
    /\ published = None
    /\ args = NoArgs
    /\ outcome = NoCall
    /\ built_path = ""
    /\ built_with_token = FALSE
    /\ built_url = None

\* no call is in progress (the client is single-threaded and synchronous)
Idle == pc \in {"idle", "done"}

\* a top-level API operation `name` ran the endpoint macro with prms and got c
Returns(name, prms, c, value) ==
    /\ op' = name
    /\ params' = prms
    /\ pc' = "idle"
    /\ idx' = 0
    /\ signature' = None
    /\ log' = <<>>
    /\ requests' = c.sent
    /\ decoded' = c.decoded
    /\ files' = {}
    /\ result' = value
    /\ resp' = c.resp
    /\ args' = NoArgs
    /\ outcome' = c.res
    /\ built_path' = c.base
    /\ built_with_token' = c.with_token
    /\ built_url' = c.url

\* the tunnel service stores the challenge of a dnsconfig request it answers with 200
Accepted(c) == c.sent # <<>> /\ c.resp.transport = "ok" /\ c.resp.status = HttpOk

----------------------------------------------------------------------------
(* The ten operations *)

\* the Option<Self> subscribe returns, as a result record
SubscribeResult(c) ==
    IF c.res.kind = "Ok"
    THEN [kind |-> "Some", msg |-> "", data |-> None,
          client |-> Some([tunnel_url |-> self.tunnel_url,
                           token |-> Some(c.res.data[1].token[1])])]
    ELSE [kind |-> "None", msg |-> "", data |-> None, client |-> None]

Subscribe_inplace(name, description) ==
    /\ Idle
    /\ \E r \in Responses :
         LET prms == << <<"name", Some(name)>>, <<"desc", description>> >>
             c == call_subscribe(prms, r)
         IN /\ Returns("subscribe", prms, c,
                       IF c.res.kind = "Ok"
                       THEN [SubscribeResult(c) EXCEPT !.client = Some(self)]
                       ELSE SubscribeResult(c))
            /\ self' = IF c.res.kind = "Ok"
                       THEN [self EXCEPT !.token = Some(c.res.data[1].token[1])]
                       ELSE self
    /\ UNCHANGED published

Subscribe(name, description) ==
    /\ Idle
    /\ \E r \in Responses :
         LET prms == << <<"name", Some(name)>>, <<"desc", description>> >>
             c == call_subscribe(prms, r)
         IN Returns("subscribe", prms, c, SubscribeResult(c))
    /\ UNCHANGED <<self, published>>

Unsubscribe ==
    /\ Idle
    /\ \E r \in Responses :
         LET c == call_unsubscribe(<<>>, r)
         IN Returns("unsubscribe", <<>>, c, c.res)
    /\ UNCHANGED <<self, published>>

Register(local_ip) ==
    /\ Idle
    /\ \E r \in Responses :
         LET prms == << <<"local_ip", Some(local_ip)>> >>
             c == call_register(prms, r)
         IN Returns("register", prms, c, c.res)
    /\ UNCHANGED <<self, published>>

dnsconfig(challenge, r) == call_dnsconfig(<< <<"challenge", Some(challenge)>> >>, r)

Dnsconfig(challenge) ==
    /\ Idle
    /\ \E r \in Responses :
         LET prms == << <<"challenge", Some(challenge)>> >>
             c == dnsconfig(challenge, r)
         IN /\ Returns("dnsconfig", prms, c, c.res)
            /\ published' = IF Accepted(c) THEN Some(challenge) ELSE published
    /\ UNCHANGED self

Info ==
    /\ Idle
    /\ \E r \in Responses :
         LET c == call_info(<<>>, r)
         IN Returns("info", <<>>, c, c.res)
    /\ UNCHANGED <<self, published>>

Ping ==
    /\ Idle
    /\ \E r \in Responses :
         LET c == call_ping(<<>>, r)
         IN Returns("ping", <<>>, c, c.res)
    /\ UNCHANGED <<self, published>>

Adddiscovery(disco) ==
    /\ Idle
    /\ \E r \in Responses :
         LET prms == << <<"disco", Some(disco)>> >>
             c == call_adddiscovery(prms, r)
         IN Returns("adddiscovery", prms, c, c.res)
    /\ UNCHANGED <<self, published>>

Revokediscovery(disco) ==
    /\ Idle
    /\ \E r \in Responses :
         LET prms == << <<"disco", Some(disco)>> >>
             c == call_revokediscovery(prms, r)
         IN Returns("revokediscovery", prms, c, c.res)
    /\ UNCHANGED <<self, published>>

Setemail(email) ==
    /\ Idle
    /\ \E r \in Responses :
         LET prms == << <<"email", Some(email)>> >>
             c == call_setemail(prms, r)
         IN Returns("setemail", prms, c, c.res)
    /\ UNCHANGED <<self, published>>

Revokeemail(email) ==
    /\ Idle
    /\ \E r \in Responses :
         LET prms == << <<"email", Some(email)>> >>
             c == call_revokeemail(prms, r)
         IN Returns("revokeemail", prms, c, c.res)
    /\ UNCHANGED <<self, published>>

----------------------------------------------------------------------------
(* lets_encrypt, one action per collaborator call *)

remote_domain(a) == a.name \o <<".box.">> \o a.domain

local_domain(a) == <<"local.">> \o a.name \o <<".box.">> \o a.domain

domains == << remote_domain(args), local_domain(args) >>

path_join(path, file) == path \o <<"/", file>>

CertificatePem == path_join(args.path, "certificate.pem")

PrivatekeyPem == path_join(args.path, "privatekey.pem")

Event(step, dom, ok) == [step |-> step, dom |-> dom, ok |-> ok]

\* Result of an ACME client call that succeeded or not
Acme(step, ok) == IF ok THEN Ok ELSE FromAcmeError(step)

\* the `?` operator: where control goes after a call that returned res
Try(res, next) == IF res.kind = "Ok" THEN next ELSE "done"

Returned_rewrapped(res, next) ==
    IF next = "done" THEN FromAcmeError(res.kind) ELSE Pending

\* what lets_encrypt has returned once control is at pc' (res: the last call's Result)
Returned(res, next) == IF next = "done" THEN res ELSE Pending

LeStart_unchecked(domain, name, path) ==
    /\ Idle
    /\ op' = "lets_encrypt"
    /\ args' = [domain |-> domain, name |-> name, path |-> path]
    /\ params' = <<>>
    /\ idx' = 0
    /\ signature' = None
    /\ log' = <<>>
    /\ requests' = <<>>
    /\ decoded' = 0
    /\ files' = {}
    /\ resp' = NoResp
    /\ outcome' = NoCall
    /\ built_path' = ""
    /\ built_with_token' = FALSE
    /\ built_url' = None
    /\ pc' = "directory"
    /\ result' = Pending
    /\ UNCHANGED <<self, published>>

\* the token check on entry
LeStart(domain, name, path) ==
    /\ Idle
    /\ op' = "lets_encrypt"
    /\ args' = [domain |-> domain, name |-> name, path |-> path]
    /\ params' = <<>>
    /\ idx' = 0
    /\ signature' = None
    /\ log' = <<>>
    /\ requests' = <<>>
    /\ decoded' = 0
    /\ files' = {}
    /\ resp' = NoResp
    /\ outcome' = NoCall
    /\ built_path' = ""
    /\ built_with_token' = FALSE
    /\ built_url' = None
    /\ IF self.token = None
       THEN pc' = "done" /\ result' = Err("NoToken", "")
       ELSE pc' = "directory" /\ result' = Pending
    /\ UNCHANGED <<self, published>>

\* Directory::lets_encrypt()?
LeDirectory ==
    /\ pc = "directory"
    /\ \E ok \in BOOLEAN :
         LET res == Acme("directory", ok)
         IN /\ log' = Append(log, Event("directory", 0, ok))
            /\ pc' = Try(res, "register")
            /\ result' = Returned(res, pc')
    /\ UNCHANGED <<self, op, params, idx, signature, requests, decoded, files,
                   resp, published, args, outcome,
                   built_path, built_with_token, built_url>>

\* directory.account_registration().register()?, then the loop is entered
LeRegister ==
    /\ pc = "register"
    /\ \E ok \in BOOLEAN :
         LET res == Acme("register", ok)
         IN /\ log' = Append(log, Event("register", 0, ok))
            /\ pc' = Try(res, "authorization")
            /\ result' = Returned(res, pc')
            /\ idx' = IF ok THEN 1 ELSE idx
    /\ UNCHANGED <<self, op, params, signature, requests, decoded, files,
                   resp, published, args, outcome,
                   built_path, built_with_token, built_url>>

\* account.authorization(domain)?
LeAuthorization ==
    /\ pc = "authorization"
    /\ \E ok \in BOOLEAN :
         LET res == Acme("authorization", ok)
         IN /\ log' = Append(log, Event("authorization", idx, ok))
            /\ pc' = Try(res, "get_dns_challenge")
            /\ result' = Returned(res, pc')
    /\ UNCHANGED <<self, op, params, idx, signature, requests, decoded, files,
                   resp, published, args, outcome,
                   built_path, built_with_token, built_url>>

LeGetDnsChallenge_skipPublication ==
    /\ pc = "get_dns_challenge"
    /\ \E offered \in BOOLEAN :
         /\ log' = Append(log, Event("get_dns_challenge", idx, offered))
         /\ pc' = IF offered THEN "signature" ELSE "validate"
         /\ result' = Pending
    /\ UNCHANGED <<self, op, params, idx, signature, requests, decoded, files,
                   resp, published, args, outcome,
                   built_path, built_with_token, built_url>>

\* authorization.get_dns_challenge(): Some(challenge) or None
LeGetDnsChallenge ==
    /\ pc = "get_dns_challenge"
    /\ \E offered \in BOOLEAN :
         LET res == IF offered THEN Ok ELSE Err("NoChallenge", "")
         IN /\ log' = Append(log, Event("get_dns_challenge", idx, offered))
            /\ pc' = Try(res, "signature")
            /\ result' = Returned(res, pc')
    /\ UNCHANGED <<self, op, params, idx, signature, requests, decoded, files,
                   resp, published, args, outcome,
                   built_path, built_with_token, built_url>>

LeSignature_validateFirst ==
    /\ pc = "signature"
    /\ \E sig \in Option(Signatures) :
         LET ok == sig # None
             res == Acme("signature", ok)
         IN /\ log' = Append(log, Event("signature", idx, ok))
            /\ signature' = sig
            /\ pc' = Try(res, "validate")
            /\ result' = Returned(res, pc')
    /\ UNCHANGED <<self, op, params, idx, requests, decoded, files,
                   resp, published, args, outcome,
                   built_path, built_with_token, built_url>>

\* dns_challenge.signature()?
LeSignature ==
    /\ pc = "signature"
    /\ \E sig \in Option(Signatures) :
         LET ok == sig # None
             res == Acme("signature", ok)
         IN /\ log' = Append(log, Event("signature", idx, ok))
            /\ signature' = sig
            /\ pc' = Try(res, "dnsconfig")
            /\ result' = Returned(res, pc')
    /\ UNCHANGED <<self, op, params, idx, requests, decoded, files,
                   resp, published, args, outcome,
                   built_path, built_with_token, built_url>>

DnsconfigThen_ignoreError(res) == "validate"

\* self.dnsconfig(&signature)?
DnsconfigThen(res) == Try(res, "validate")

LeDnsconfig ==
    /\ pc = "dnsconfig"
    /\ \E r \in Responses :
         LET c == dnsconfig(signature[1], r)
         IN /\ log' = Append(log, Event("dnsconfig", idx, c.res.kind = "Ok"))
            /\ requests' = requests \o c.sent
            /\ decoded' = decoded + c.decoded
            /\ resp' = c.resp
            /\ outcome' = c.res
            /\ built_path' = c.base
            /\ built_with_token' = c.with_token
            /\ built_url' = c.url
            /\ published' = IF Accepted(c) THEN signature ELSE published
            /\ pc' = DnsconfigThen(c.res)
            /\ result' = Returned(c.res, pc')
    /\ UNCHANGED <<self, op, params, idx, signature, files, args>>

ValidateThen_ignoreError(res, i) ==
    IF i < Len(domains) THEN "authorization" ELSE "sign_certificate"

ValidateThen_repeat(res, i) == Try(res, "authorization")

ValidateThen_firstOnly(res, i) == Try(res, "sign_certificate")

\* dns_challenge.validate()?, then the next domain or the end of the loop
ValidateThen(res, i) ==
    IF i < Len(domains) THEN Try(res, "authorization")
    ELSE Try(res, "sign_certificate")

LeValidate_rollback ==
    /\ pc = "validate"
    /\ \E ok \in BOOLEAN :
         LET res == Acme("validate", ok)
             clear == get_full_url("dnsconfig", << <<"challenge", Some(<<>>)>> >>, TRUE)
         IN /\ log' = Append(log, Event("validate", idx, ok))
            /\ pc' = ValidateThen(res, idx)
            /\ result' = Returned(res, pc')
            /\ idx' = IF pc' = "authorization" THEN idx + 1 ELSE idx
            /\ requests' = IF ok THEN requests ELSE Append(requests, clear)
            /\ published' = IF ok THEN published ELSE None
    /\ UNCHANGED <<self, op, params, signature, decoded, files,
                   resp, args, outcome,
                   built_path, built_with_token, built_url>>

LeValidate ==
    /\ pc = "validate"
    /\ \E ok \in BOOLEAN :
         LET res == Acme("validate", ok)
         IN /\ log' = Append(log, Event("validate", idx, ok))
            /\ pc' = ValidateThen(res, idx)
            /\ result' = Returned(res, pc')
            /\ idx' = IF pc' = "authorization" THEN idx + 1 ELSE idx
    /\ UNCHANGED <<self, op, params, signature, requests, decoded, files,
                   resp, published, args, outcome,
                   built_path, built_with_token, built_url>>

\* account.certificate_signer(&domains).sign_certificate()?
LeSignCertificate ==
    /\ pc = "sign_certificate"
    /\ \E ok \in BOOLEAN :
         LET res == Acme("sign_certificate", ok)
         IN /\ log' = Append(log, Event("sign_certificate", 0, ok))
            /\ pc' = Try(res, "save_signed_certificate_and_chain")
            /\ result' = Returned(res, pc')
    /\ UNCHANGED <<self, op, params, idx, signature, requests, decoded, files,
                   resp, published, args, outcome,
                   built_path, built_with_token, built_url>>

\* cert.save_signed_certificate_and_chain(None, path.join("certificate.pem"))?
LeSaveCertificate ==
    /\ pc = "save_signed_certificate_and_chain"
    /\ \E ok \in BOOLEAN :
         LET res == Acme("save_signed_certificate_and_chain", ok)
         IN /\ log' = Append(log, Event("save_signed_certificate_and_chain", 0, ok))
            /\ files' = IF ok THEN files \cup {CertificatePem} ELSE files
            /\ pc' = Try(res, "save_private_key")
            /\ result' = Returned(res, pc')
    /\ UNCHANGED <<self, op, params, idx, signature, requests, decoded,
                   resp, published, args, outcome,
                   built_path, built_with_token, built_url>>

\* cert.save_private_key(path.join("privatekey.pem"))?; Ok(())
LeSavePrivateKey ==
    /\ pc = "save_private_key"
    /\ \E ok \in BOOLEAN :
         LET res == Acme("save_private_key", ok)
         IN /\ log' = Append(log, Event("save_private_key", 0, ok))
            /\ files' = IF ok THEN files \cup {PrivatekeyPem} ELSE files
            /\ pc' = "done"
            /\ result' = res
    /\ UNCHANGED <<self, op, params, idx, signature, requests, decoded,
                   resp, published, args, outcome,
                   built_path, built_with_token, built_url>>

----------------------------------------------------------------------------

Next ==
    \/ \E name \in Values, description \in Option(Values) : Subscribe(name, description)
    \/ Unsubscribe
    \/ \E local_ip \in Values : Register(local_ip)
    \/ \E challenge \in Values : Dnsconfig(challenge)
    \/ Info
    \/ Ping
    \/ \E disco \in Values : Adddiscovery(disco)
    \/ \E disco \in Values : Revokediscovery(disco)
    \/ \E email \in Values : Setemail(email)
    \/ \E email \in Values : Revokeemail(email)
    \/ \E domain \in RootDomains, name \in Names, path \in Paths : LeStart(domain, name, path)
    \/ LeDirectory
    \/ LeRegister
    \/ LeAuthorization
    \/ LeGetDnsChallenge
    \/ LeSignature
    \/ LeDnsconfig
    \/ LeValidate
    \/ LeSignCertificate
    \/ LeSaveCertificate
    \/ LeSavePrivateKey

Spec == Init /\ [][Next]_vars

----------------------------------------------------------------------------
(* lets_encrypt alone, every collaborator call returning *)

LeStep ==
    \/ LeDirectory
    \/ LeRegister
    \/ LeAuthorization
    \/ LeGetDnsChallenge
    \/ LeSignature
    \/ LeDnsconfig
    \/ LeValidate
    \/ LeSignCertificate
    \/ LeSaveCertificate
    \/ LeSavePrivateKey

FlowNext ==
    \/ \E domain \in RootDomains, name \in Names, path \in Paths : LeStart(domain, name, path)
    \/ LeDirectory
    \/ LeRegister
    \/ LeAuthorization
    \/ LeGetDnsChallenge
    \/ LeSignature
    \/ LeDnsconfig
    \/ LeValidate
    \/ LeSignCertificate
    \/ LeSaveCertificate
    \/ LeSavePrivateKey

FlowSpec == Init /\ [][FlowNext]_vars /\ WF_vars(LeStep)

----------------------------------------------------------------------------
(* get_full_url applied to arbitrary arguments on a fresh client, next to  *)
(* subscribe, the one endpoint declared without the token.                 *)

MaxParams == 2

ParamNames == {"name", "desc"}

UrlPaths == {"subscribe", "register"}

UrlValues == { <<"a">>, <<" ", "&">>, <<"=", "?">>, <<"%", "2", "0">> }

ParamLists ==
    UNION { [1..n -> ParamNames \X Option(UrlValues)] : n \in 0..MaxParams }

GetFullUrl(path, prms, include_token) ==
    /\ op = "new"
    /\ op' = "get_full_url"
    /\ params' = prms
    /\ built_path' = path
    /\ built_with_token' = include_token
    /\ built_url' = Some(get_full_url(path, prms, include_token))
    /\ UNCHANGED <<self, pc, idx, signature, log, requests, decoded, files,
                   result, resp, published, args, outcome>>

UrlNext ==
    \/ \E path \in UrlPaths, prms \in ParamLists, include_token \in BOOLEAN :
         GetFullUrl(path, prms, include_token)
    \/ \E name \in Values, description \in Option(Values) : Subscribe(name, description)

UrlSpec == Init /\ [][UrlNext]_vars

----------------------------------------------------------------------------
(* Vocabulary of the properties *)

TypedOps == {"subscribe", "info", "ping"}

GatedOps == {"unsubscribe", "register", "dnsconfig", "info", "ping",
             "adddiscovery", "revokediscovery", "setemail", "revokeemail"}

ApiOps == GatedOps \cup {"subscribe"}

PerDomainSteps == {"authorization", "get_dns_challenge", "signature",
                   "dnsconfig", "validate"}

\* number of calls of `step` for domain number dom (0: not per domain) so far
Count(step, dom) ==
    Cardinality({ i \in DOMAIN log : log[i].step = step /\ log[i].dom = dom })

Called(step) == \E i \in DOMAIN log : log[i].step = step

InLetsEncrypt == op = "lets_encrypt"

Terminated == InLetsEncrypt /\ pc = "done"

\* the transport could not complete the request
TransportFailed == resp.transport = "refused"

\* a 200 response whose body did not decode into the expected shape
DecodeFailed == decoded = 1 /\ outcome.kind # "Ok"

\* the same endpoint call, had the transport answered r
Replay(r) ==
    IF op = "subscribe" THEN call_subscribe(params, r)
    ELSE IF op = "info" THEN call_info(params, r)
    ELSE call_ping(params, r)

----------------------------------------------------------------------------
(* Vocabulary of the URL properties *)

\* a URL has been built by the current call (the last one it built)
UrlBuilt == built_url # None

Url == built_url[1]

\* "{tunnel_url}/{path}"
Prefix == self.tunnel_url \o <<"/", built_path>>

\* the part of the URL after "{tunnel_url}/{path}"
Query == SubSeq(Url, Len(Prefix) + 1, Len(Url))

\* the parameters of the input list whose value is present, in input order
Present == SelectSeq(params, LAMBDA p : p[2] # None)

TokenApplies == built_with_token /\ self.token # None

\* what is to be appended: <<name, value>> of the present parameters, then the token
Items ==
    [k \in 1..Len(Present) |-> <<Present[k][1], Present[k][2][1]>>]
    \o (IF TokenApplies THEN << <<"token", self.token[1]>> >> ELSE <<>>)

\* where the separator of the k-th item stands in the URL
RECURSIVE SepPos(_)
SepPos(k) ==
    IF k = 1 THEN Len(Prefix) + 1
    ELSE SepPos(k - 1) + 3 + Len(url_param(Items[k - 1][2]))

\* the k-th value as it appears in the URL
ValueInUrl(k) == SubSeq(Url, SepPos(k) + 3, SepPos(k + 1) - 1)

CountIn(seq, c) == Cardinality({ i \in DOMAIN seq : seq[i] = c })

ReservedChars == {"&", "=", "?", " ", "%"}

HexDigits == {"0", "1", "2", "3", "4", "5", "6", "7", "8", "9",
              "A", "B", "C", "D", "E", "F"}

IsEscape(seq, i) ==
    /\ seq[i] = "%"
    /\ i + 2 <= Len(seq)
    /\ seq[i + 1] \in HexDigits
    /\ seq[i + 2] \in HexDigits

\* the only reserved character left is the % that starts an escape
NoUnescapedReserved(seq) ==
    \A i \in DOMAIN seq : seq[i] \in ReservedChars => IsEscape(seq, i)

\* the byte an escape %XY stands for
Unhex(x, y) ==
    IF <<x, y>> = <<"2", "0">> THEN <<" ">>
    ELSE IF <<x, y>> = <<"2", "2">> THEN <<"\"">>
    ELSE IF <<x, y>> = <<"2", "3">> THEN <<"#">>
    ELSE IF <<x, y>> = <<"3", "C">> THEN <<"<">>
    ELSE IF <<x, y>> = <<"3", "E">> THEN <<">">>
    ELSE <<"0x", x, y>>

RECURSIVE percent_decode(_)
percent_decode(seq) ==
    IF seq = <<>> THEN <<>>
    ELSE IF IsEscape(seq, 1)
         THEN Unhex(seq[2], seq[3]) \o percent_decode(SubSeq(seq, 4, Len(seq)))
         ELSE <<Head(seq)>> \o percent_decode(Tail(seq))

\* the pieces of seq between the occurrences of c
RECURSIVE SplitAt(_, _)
SplitAt(seq, c) ==
    IF \A i \in DOMAIN seq : seq[i] # c THEN <<seq>>
    ELSE LET i == CHOOSE j \in DOMAIN seq :
                      seq[j] = c /\ \A h \in 1..(j - 1) : seq[h] # c
         IN <<SubSeq(seq, 1, i - 1)>> \o SplitAt(SubSeq(seq, i + 1, Len(seq)), c)

\* name=value split at the first '='
NameValue(piece) ==
    LET parts == SplitAt(piece, "=")
    IN <<parts[1], SubSeq(piece, Len(parts[1]) + 2, Len(piece))>>

\* the query string as a server reads it: the part after '?', split at '&',
\* each piece a <<name, encoded value>>
Parsed ==
    IF Query = <<>> THEN <<>>
    ELSE LET pieces == SplitAt(Tail(Query), "&")
         IN [k \in 1..Len(pieces) |-> NameValue(pieces[k])]

ParsedNames == { Parsed[k][1] : k \in DOMAIN Parsed }

\* the query string the input stands for
Expected == [k \in 1..Len(Items) |-> << <<Items[k][1]>>, url_param(Items[k][2]) >>]

----------------------------------------------------------------------------
(* Vocabulary of the issuance properties *)

StepOrder == <<"authorization", "get_dns_challenge", "signature", "dnsconfig", "validate">>

StepIndex(step) == CHOOSE k \in DOMAIN StepOrder : StepOrder[k] = step

\* the dnsconfig calls of the flow, in order: the k-th one sent requests[k]
DnsEvents == SelectSeq(log, LAMBDA e : e.step = "dnsconfig")

AcceptedIdx == { k \in DOMAIN DnsEvents : DnsEvents[k].ok }

Max(S) == CHOOSE x \in S : \A y \in S : y <= x

\* the URL a publication of value v is requested with
PublicationUrl(v) == get_full_url("dnsconfig", << <<"challenge", Some(v)>> >>, TRUE)

\* a value this flow published is the one the tunnel service holds
PublishedByFlow ==
    /\ AcceptedIdx # {}
    /\ published # None
    /\ Max(AcceptedIdx) <= Len(requests)
    /\ requests[Max(AcceptedIdx)] = PublicationUrl(published[1])

NoChallengeAt(d) == \E i \in DOMAIN log : log[i] = Event("get_dns_challenge", d, FALSE)

\* what C16 says of the certificate side when domain d offers no DNS-01 challenge
NoChallengeAborts(d) ==
    /\ Terminated
    /\ result = Err("NoChallenge", "")
    /\ Count("dnsconfig", d) = 0
    /\ Count("validate", d) = 0
    /\ d = 1 => \A i \in DOMAIN log : log[i].dom # 2
    /\ ~Called("sign_certificate")
    /\ files = {}

\* the error lets_encrypt returns when `step` fails
StepError(step) ==
    IF step = "get_dns_challenge" THEN Err("NoChallenge", "")
    ELSE IF step = "dnsconfig" THEN outcome
    ELSE FromAcmeError(step)

\* the path an operation is declared with
PathOf(name) == IF name = "revokediscovery" THEN "adddiscovery" ELSE name

Running == InLetsEncrypt /\ pc # "done"

\* the resource bounds of one lets_encrypt call
Bounded ==
    /\ idx <= 2
    /\ Len(log) <= 15
    /\ \A i, j \in DOMAIN log :
         (log[i].step = log[j].step /\ log[i].dom = log[j].dom) => i = j
    /\ Cardinality({ i \in DOMAIN log : log[i].step = "authorization" }) <= 2
    /\ Len(DnsEvents) <= 2
    /\ Len(requests) <= 2
    /\ Cardinality({ i \in DOMAIN log : log[i].step = "sign_certificate" }) <= 1
    /\ Running => result = Pending
    /\ Terminated => result.kind \in {"Ok"} \cup TunnelClientError

----------------------------------------------------------------------------
(* C1: a token-gated operation called on a client without a token returns  *)
(* NoToken and no request to the tunnel service has been sent.             *)
C1_TokenGating ==
    (op \in GatedOps /\ self.token = None)
        => (result.kind = "NoToken" /\ requests = <<>> /\ resp = NoResp)

C1_Witness ==
    /\ op \in {"register", "info"}
    /\ self.token = None
    /\ result.kind = "NoToken"

(* C2: lets_encrypt on a client without a token has returned NoToken with  *)
(* no CA call, no tunnel-service request and no file write made.           *)
C2_NoTokenBeforeAnything ==
    (InLetsEncrypt /\ self.token = None)
        => /\ pc = "done"
           /\ result.kind = "NoToken"
           /\ log = <<>>
           /\ requests = <<>>
           /\ files = {}

C2_Witness == InLetsEncrypt /\ self.token = None /\ result.kind = "NoToken"

(* C3: certificate.pem is written only when lets_encrypt ends in success,  *)
(* and when lets_encrypt has terminated either both certificate.pem and    *)
(* privatekey.pem are written or neither is.                               *)
C3_NoPartialArtifacts ==
    Terminated
        => /\ (CertificatePem \in files => result.kind = "Ok")
           /\ (CertificatePem \in files <=> PrivatekeyPem \in files)

(* C4: when the dnsconfig publication for the first (remote) domain has    *)
(* failed, no authorization was requested for the second domain, signing   *)
(* was not invoked and no file was written.                                *)
C4_AbortOnFirstPublication ==
    (\E i \in DOMAIN log : log[i] = Event("dnsconfig", 1, FALSE))
        => /\ Count("authorization", 2) = 0
           /\ ~Called("sign_certificate")
           /\ files = {}

C4_Witness ==
    /\ Terminated
    /\ log # <<>>
    /\ log[Len(log)] = Event("dnsconfig", 1, FALSE)
    /\ result.kind \in {"BadRequest", "Other"}

(* C5: every signing call is preceded by a successful validate of the      *)
(* remote and of the local domain, and once a per-domain step has failed   *)
(* signing is never invoked.                                               *)
C5_SignAfterBothValidated ==
    /\ \A i \in DOMAIN log :
         log[i].step = "sign_certificate"
            => \A d \in 1..2 : \E j \in 1..(i - 1) : log[j] = Event("validate", d, TRUE)
    /\ (\E i \in DOMAIN log : log[i].step \in PerDomainSteps /\ ~log[i].ok)
            => ~Called("sign_certificate")

C5_Witness ==
    /\ Called("sign_certificate")
    /\ Count("validate", 1) = 1
    /\ Count("validate", 2) = 1

(* C6: a response whose status is not 200 makes the endpoint function      *)
(* return BadRequest whatever the status and the body are, and its body is *)
(* not decoded.                                                            *)
C6_Non200IsBadRequest ==
    (resp.transport = "ok" /\ resp.status # HttpOk)
        => (outcome.kind = "BadRequest" /\ decoded = 0)

C6_Witness ==
    /\ op \in TypedOps
    /\ resp.transport = "ok"
    /\ resp.status = 204
    /\ resp.body # Garbage
    /\ outcome.kind = "BadRequest"

C8_OneRequestPerCall ==
    /\ op \in ApiOps
         => Len(requests) = (IF op \in GatedOps /\ self.token = None THEN 0 ELSE 1)
    /\ InLetsEncrypt
         => Len(requests) = Count("dnsconfig", 1) + Count("dnsconfig", 2)

C8_Witness ==
    /\ op \in ApiOps
    /\ TransportFailed
    /\ Len(requests) = 1

(* C9: a subscribe call leaves the client it is called on unchanged; on    *)
(* success it returns a client with the same base URL and the token the    *)
(* server issued, on failure it returns no client.                         *)
C9_SubscribeDoesNotMutate ==
    [][op' = "subscribe"
        => /\ self' = self
           /\ outcome'.kind = "Ok"
                => /\ result'.kind = "Some"
                   /\ result'.client = Some([tunnel_url |-> self.tunnel_url,
                                             token |-> resp'.body.token])
           /\ outcome'.kind # "Ok"
                => (result'.kind = "None" /\ result'.client = None)]_vars

C9_Witness ==
    /\ op = "subscribe"
    /\ result.kind = "Some"
    /\ self.token # None
    /\ result.client[1].token # self.token
    /\ result.client[1].tunnel_url = self.tunnel_url

(* C10: when every collaborator call has succeeded, lets_encrypt returns   *)
(* Ok with exactly certificate.pem and privatekey.pem written, every       *)
(* per-domain step invoked once per domain, and directory, registration    *)
(* and signing invoked once.                                               *)
C10_FullSuccess ==
    (Terminated /\ log # <<>> /\ \A i \in DOMAIN log : log[i].ok)
        => /\ result = Ok
           /\ files = {CertificatePem, PrivatekeyPem}
           /\ Cardinality(files) = 2
           /\ \A d \in 1..2 : \A step \in PerDomainSteps : Count(step, d) = 1
           /\ Count("directory", 0) = 1
           /\ Count("register", 0) = 1
           /\ Count("sign_certificate", 0) = 1
           /\ Len(requests) = 2

C10_Witness ==
    /\ Terminated
    /\ result = Ok
    /\ Len(log) = 15
    /\ \A i \in DOMAIN log : log[i].ok

(* C11 as stated: a parameter list of length 0 gives a URL without query   *)
(* string, and for a list of length >= 1 a '?' precedes the first          *)
(* parameter.                                                             *)
C11_SeparatorsByListLength ==
    UrlBuilt
        => /\ Len(params) = 0 => Url = Prefix
           /\ Len(params) >= 1 => (Len(Url) > Len(Prefix) /\ Url[Len(Prefix) + 1] = "?")

(* C11 as amended: with the appended items being the parameters whose      *)
(* value is present followed by the token when include_token is set and a  *)
(* token is held, the URL has no query string when nothing is appended,    *)
(* else '?' stands before the first appended item and '&' before every     *)
(* later one, the token included.                                          *)
C11_SeparatorsByAppendedItems ==
    UrlBuilt
        => /\ Len(Items) = 0 => Url = Prefix
           /\ \A k \in 1..Len(Items) :
                /\ SepPos(k) + 2 <= Len(Url)
                /\ Url[SepPos(k)] = (IF k = 1 THEN "?" ELSE "&")
                /\ Url[SepPos(k) + 1] = Items[k][1]
                /\ Url[SepPos(k) + 2] = "="
           /\ Len(Url) = SepPos(Len(Items) + 1) - 1

C11_Witness ==
    /\ op = "get_full_url"
    /\ UrlBuilt
    /\ Len(params) = 2
    /\ params[1][2] = None
    /\ params[2][2] # None
    /\ TokenApplies
    /\ Len(Items) = 2

(* C12: every value, as it appears in the built URL, has no unescaped      *)
(* reserved character (& = ? space %), percent-decodes to the original     *)
(* value, and adds no separator to the query string.                       *)
C12_EncodingTotality ==
    UrlBuilt
        => /\ \A k \in 1..Len(Items) :
                /\ NoUnescapedReserved(ValueInUrl(k))
                /\ percent_decode(ValueInUrl(k)) = Items[k][2]
           /\ Len(Items) >= 1
                => /\ CountIn(Query, "?") = 1
                   /\ CountIn(Query, "&") = Len(Items) - 1
                   /\ CountIn(Query, "=") = Len(Items)

(* C13: the parameters in the built URL are those of the input list whose  *)
(* value is present, in input order, followed by one parameter named       *)
(* token exactly when include_token is set and a token is held; subscribe  *)
(* sends no token even when the client holds one.                          *)
C13_ParametersAndToken ==
    UrlBuilt
        => /\ Parsed = Expected
           /\ TokenApplies
                => /\ Parsed[Len(Parsed)] = << <<"token">>, url_param(self.token[1]) >>
                   /\ Cardinality({ k \in DOMAIN Parsed : Parsed[k][1] = <<"token">> }) = 1
           /\ ~TokenApplies => <<"token">> \notin ParsedNames
           /\ op = "subscribe" => (~built_with_token /\ <<"token">> \notin ParsedNames)

(* C14: the calls for one domain are made in the order authorization,      *)
(* get_dns_challenge, signature, dnsconfig, validate, each after the       *)
(* previous one succeeded; no call for the local domain is made before     *)
(* the remote domain's validate succeeded.                                 *)
C14_PerDomainOrder ==
    /\ \A i \in DOMAIN log :
         log[i].dom # 0
            => /\ i > 1
               /\ log[i - 1] =
                    (IF StepIndex(log[i].step) > 1
                     THEN Event(StepOrder[StepIndex(log[i].step) - 1], log[i].dom, TRUE)
                     ELSE IF log[i].dom = 1 THEN Event("register", 0, TRUE)
                     ELSE Event("validate", 1, TRUE))
    /\ \A i \in DOMAIN log :
         log[i].dom = 2 => \E j \in 1..(i - 1) : log[j] = Event("validate", 1, TRUE)

C14_Witness ==
    /\ InLetsEncrypt
    /\ pc = "validate"
    /\ idx = 2
    /\ log[Len(log)] = Event("dnsconfig", 2, TRUE)

(* C15: the first step of lets_encrypt that fails is the last call made    *)
(* and lets_encrypt returns that step's error; a dnsconfig failure is      *)
(* returned as the error the endpoint gave (BadRequest, or Other for a     *)
(* transport error), not as an Acme error.                                 *)
C15_FailFast ==
    \A i \in DOMAIN log :
        ~log[i].ok
            => /\ i = Len(log)
               /\ Terminated
               /\ result = StepError(log[i].step)
               /\ log[i].step = "dnsconfig"
                    => /\ result.kind \in {"BadRequest", "Other"}
                       /\ result.kind = "BadRequest" <=> resp.transport = "ok"
                       /\ result.kind = "Other" <=> TransportFailed

C15_Witness ==
    /\ Terminated
    /\ log # <<>>
    /\ log[Len(log)] = Event("dnsconfig", 2, FALSE)
    /\ result = Err("Other", Display([cause |-> "connect"]))

(* C16 as stated: when a domain offers no DNS-01 challenge lets_encrypt    *)
(* returns NoChallenge without publication or validation for that domain,  *)
(* without attempting a remaining domain, signing or writing a file, and   *)
(* nothing the issuance published stays in place.                          *)
C16_NoPartialState ==
    \A d \in 1..2 : NoChallengeAt(d) => (NoChallengeAborts(d) /\ ~PublishedByFlow)

(* C16 as amended: the same, except that when it is the local domain that  *)
(* offers no challenge, the value published for the remote domain stays in *)
(* place at the tunnel service.                                            *)
C16_NoChallengeAborts ==
    \A d \in 1..2 :
        NoChallengeAt(d)
            => /\ NoChallengeAborts(d)
               /\ d = 1 => ~PublishedByFlow
               /\ d = 2 => (PublishedByFlow /\ Len(requests) = 1)

C16_Witness ==
    /\ Terminated
    /\ NoChallengeAt(2)
    /\ result.kind = "NoChallenge"
    /\ published # None

(* C17: when the remote domain was published and validated and a later     *)
(* step fails, lets_encrypt has sent nothing but its publications, and the *)
(* value of the last accepted one is still held by the tunnel service.     *)
C17_NoRollback ==
    (Terminated /\ result.kind # "Ok"
       /\ \E i \in DOMAIN log : log[i] = Event("validate", 1, TRUE))
        => /\ Len(requests) = Len(DnsEvents)
           /\ \A k \in DOMAIN requests :
                \E sig \in Signatures : requests[k] = PublicationUrl(sig)
           /\ PublishedByFlow
           /\ Count("dnsconfig", 2) = 0 => requests = <<PublicationUrl(published[1])>>

C17_Witness ==
    /\ Terminated
    /\ log # <<>>
    /\ log[Len(log)] = Event("validate", 2, FALSE)
    /\ published # None
    /\ Len(requests) = 2

(* C18: every operation requests {tunnel_url}/{its own path}, except       *)
(* revokediscovery, which requests the URL adddiscovery requests for the   *)
(* same client and discovery value.                                        *)
C18_RevokeUsesAddPath ==
    (op \in ApiOps /\ UrlBuilt)
        => /\ built_path = PathOf(op)
           /\ SubSeq(Url, 1, Len(self.tunnel_url) + 2) = self.tunnel_url \o <<"/", PathOf(op)>>
           /\ requests = <<Url>>
           /\ op = "revokediscovery"
                => /\ Some(Url) = call_adddiscovery(params, resp).url
                   /\ requests = call_adddiscovery(params, resp).sent
                   /\ params[1][1] = "disco"

C18_Witness ==
    /\ op = "revokediscovery"
    /\ UrlBuilt
    /\ Url[Len(self.tunnel_url) + 2] = "adddiscovery"

(* C19: lets_encrypt returns NoToken only from its entry check: once a     *)
(* collaborator call was made the client holds a token, and no dnsconfig   *)
(* call of the flow returned NoToken.                                      *)
C19_NoTokenOnlyAtEntry ==
    InLetsEncrypt
        => /\ result.kind = "NoToken" => (log = <<>> /\ self.token = None)
           /\ log # <<>> => (self.token # None /\ outcome.kind # "NoToken")
           /\ Called("dnsconfig") => outcome.kind \in {"Ok", "BadRequest", "Other"}

C19_Witness ==
    /\ InLetsEncrypt
    /\ Count("dnsconfig", 1) = 1
    /\ Count("dnsconfig", 2) = 1
    /\ outcome.kind = "Ok"

(* C20: every lets_encrypt call whose collaborator calls return ends in    *)
(* one outcome, Ok or one error, after at most two loop iterations, two    *)
(* authorization calls, two dnsconfig requests and one signing call, no    *)
(* step being made twice.                                                  *)
C20_Terminates ==
    /\ []Bounded
    /\ Running ~> Terminated

C20_Witness ==
    /\ Terminated
    /\ Len(log) = 13
    /\ result = FromAcmeError("sign_certificate")

====
